---- MODULE Spec2Model ----
(***************************************************************************)
(* Model of the CV analytics pipeline of flask_cv_analyzer.py: the         *)
(* document reader (read_txt / read_docx / read_pdf / read_any), the       *)
(* tokenizer, the year extractor, the keyword analyzer and the CVAnalyzer  *)
(* aggregator, and of the upload handler upload_file of app.py.            *)
(*                                                                         *)
(* A Python str is a sequence of characters; a character is a one-element  *)
(* TLA+ string, except that the few non-ASCII and control characters the   *)
(* model uses are written by name: "LF", "TAB", "U+00A0" (no-break space), *)
(* "U+00DF" (sharp s), "U+00E9" (e acute), "U+2013" (en dash) and          *)
(* "U+017F" (long s).                                                      *)
(***************************************************************************)
EXTENDS Integers, Sequences, FiniteSets, TLC

VARIABLES
    EN_STOP,        \* module-level set EN_STOP (line 26)
    CUSTOM_STOP,    \* module-level set CUSTOM_STOP (lines 29-36)
    tok_raw,        \* the text handed to tokenize()
    tok_call,       \* the last tokenize() call: <<>> or <<[extra_stop, tokens, text]>>
    tok_history,    \* the extra_stop arguments of the calls before the last one
    year_raw,       \* the text handed to extract_year_mentions()
    year_call,      \* the last extract_year_mentions() call: <<>> or <<[now, years, raised]>>
    kw_raw,         \* raw_text of the analyzer whose keywords are counted
    kw_call,        \* the last analyze_keywords_data() call: <<>> or <<[keyword_lists, results]>>
    path,           \* file_path given to CVAnalyzer()
    pc,             \* where the CVAnalyzer(file_path) call is: "new", "pdf_fallback",
                    \* "read_done", "ready" (constructed), "raised" (left by an exception)
    attempt,        \* per extractor, what it did when it ran: <<>> or <<outcome>>
    read_calls,     \* how many times read_any has been called
    read_ret,       \* the value read_any returned: <<>> or <<text>>
    exc,            \* the exception that left the constructor, or "none"
    self,           \* the CVAnalyzer instance: <<>> or <<its fields>>
    last_ret,       \* the last method call on the instance and what it returned
    kw_seen,        \* per configuration, the first analyze_keywords_data result and,
                    \* once it is called again, the latest one
    request,        \* the POST /upload request: <<>> or <<[has_file, filename]>>
    uploads,        \* the files of the uploads folder: a set of paths
    up_pc,          \* where upload_file is: "start", "saved", "analyzed", "charts",
                    \* "keywords", "ai", "done" (it returned)
    response        \* what upload_file returned: <<>> or <<[status, error]>>

(***************************************************************************)
(* Characters                                                              *)
(***************************************************************************)
LowerSeq ==
    <<"a","b","c","d","e","f","g","h","i","j","k","l","m",
      "n","o","p","q","r","s","t","u","v","w","x","y","z">>

UpperSeq ==
    <<"A","B","C","D","E","F","G","H","I","J","K","L","M",
      "N","O","P","Q","R","S","T","U","V","W","X","Y","Z">>

Lower == {LowerSeq[i] : i \in 1..26}

Upper == {UpperSeq[i] : i \in 1..26}

Digit == {"0","1","2","3","4","5","6","7","8","9"}

Alnum == Lower \cup Upper \cup Digit

WordChars == Alnum \cup {"_", "U+00DF", "U+00E9", "U+017F"}

Spaces == {" ", "LF", "TAB", "U+00A0"}

\* [A-Za-z0-9] of _TOKEN_RE: the ASCII letters and digits
IsAlnum(c) == c \in Alnum

\* \w of a str pattern: letters, digits and the underscore, of any script
IsWordChar(c) == c \in WordChars

\* \s of a str pattern
IsSpace(c) == c \in Spaces

LowerOf == [c \in Upper |-> LowerSeq[CHOOSE i \in 1..26 : UpperSeq[i] = c]]

\* str.lower() on one character ("U+017F".lower() is itself)
lower_char(c) == IF c \in Upper THEN LowerOf[c] ELSE c

\* str.lower()
str_lower(s) == [i \in 1..Len(s) |-> lower_char(s[i])]

\* str.isdigit() on the ASCII text tokenize works on
isdigit(s) == Len(s) > 0 /\ \A i \in 1..Len(s) : s[i] \in Digit

\* str.strip(): what is left after removing leading and trailing whitespace
RECURSIVE lstrip(_)
lstrip(s) == IF Len(s) > 0 /\ IsSpace(s[1]) THEN lstrip(Tail(s)) ELSE s

RECURSIVE rstrip(_)
rstrip(s) ==
    IF Len(s) > 0 /\ IsSpace(s[Len(s)]) THEN rstrip(SubSeq(s, 1, Len(s) - 1)) ELSE s

strip(s) == rstrip(lstrip(s))

\* sep.join(parts)
RECURSIVE join(_, _)
join(sep, parts) ==
    IF Len(parts) = 0 THEN <<>>
    ELSE IF Len(parts) = 1 THEN parts[1]
    ELSE parts[1] \o sep \o join(sep, Tail(parts))

(***************************************************************************)
(* Tokenizer                                                               *)
(***************************************************************************)
\* unidecode(): transliteration to ASCII, character by character
unidecode_char(c) ==
    CASE c = "U+00DF" -> <<"s","s">>
      [] c = "U+00E9" -> <<"e">>
      [] c = "U+017F" -> <<"s">>
      [] c = "U+2013" -> <<"-">>
      [] c = "U+00A0" -> <<" ">>
      [] OTHER -> <<c>>

RECURSIVE unidecode(_)
unidecode(s) == IF Len(s) = 0 THEN <<>> ELSE unidecode_char(s[1]) \o unidecode(Tail(s))

\* re.sub(r"\s+", " ", text): every whitespace run becomes one space
RECURSIVE collapse_ws(_, _)
collapse_ws(s, i) ==
    IF i > Len(s) THEN <<>>
    ELSE IF IsSpace(s[i])
         THEN IF i > 1 /\ IsSpace(s[i - 1]) THEN collapse_ws(s, i + 1)
              ELSE <<" ">> \o collapse_ws(s, i + 1)
         ELSE <<s[i]>> \o collapse_ws(s, i + 1)

\* the end (exclusive) of the greedy [A-Za-z0-9]+ starting at i
RECURSIVE alnum_run_end(_, _)
alnum_run_end(s, i) ==
    IF i <= Len(s) /\ IsAlnum(s[i]) THEN alnum_run_end(s, i + 1) ELSE i

\* the end (exclusive) of the _TOKEN_RE match starting at the alphanumeric s[i]
RECURSIVE token_match_end(_, _)
token_match_end(s, i) ==
    LET e == alnum_run_end(s, i)
    IN  IF e + 1 <= Len(s) /\ s[e] \in {"-", "_"} /\ IsAlnum(s[e + 1])
        THEN token_match_end(s, e + 1)
        ELSE e

\* _TOKEN_RE.findall(text) scanning from position i
RECURSIVE TOKEN_RE_findall(_, _)
TOKEN_RE_findall(s, i) ==
    IF i > Len(s) THEN <<>>
    ELSE IF IsAlnum(s[i])
         THEN LET e == token_match_end(s, i)
              IN  <<SubSeq(s, i, e - 1)>> \o TOKEN_RE_findall(s, e)
         ELSE TOKEN_RE_findall(s, i + 1)

\* the words of nltk's English stopword list that the model's texts can spell
EnglishStopwords ==
    { <<"a">>, <<"i">>, <<"o">>, <<"s">>, <<"t">>,
      <<"t","o">>, <<"t","o","o">>, <<"s","o">>, <<"i","t">>, <<"i","s">>,
      <<"a","l","l">>, <<"t","h","e">>, <<"a","n","d">>, <<"n","o","t">> }

CustomStopwords ==
    { <<"c","v">>,
      <<"r","e","s","u","m","e">>,
      <<"r","e","s","p","o","n","s","i","b","l","e">>,
      <<"w","o","r","k","e","d">>,
      <<"u","s","i","n","g">>,
      <<"p","r","o","j","e","c","t">>,
      <<"p","r","o","j","e","c","t","s">>,
      <<"t","o","o","l">>,
      <<"p","e","r","f","o","r","m","e","d">>,
      <<"o","b","j","e","c","t","i","v","e">>,
      <<"s","u","m","m","a","r","y">>,
      <<"i","n","c","l","u","d","e">>,
      <<"d","a","t","a">>,
      <<"m","a","n","a","g","e","m","e","n","t">>,
      <<"e","x","p","e","r","i","e","n","c","e">>,
      <<"s","e","n","i","o","r">>,
      <<"l","e","a","d">>,
      <<"t","e","a","m">>,
      <<"d","e","v","e","l","o","p">>,
      <<"d","e","v","e","l","o","p","e","d">>,
      <<"d","e","s","i","g","n">>,
      <<"d","e","s","i","g","n","e","d">>,
      <<"i","m","p","l","e","m","e","n","t">>,
      <<"i","m","p","l","e","m","e","n","t","e","d">>,
      <<"b","u","i","l","d">>,
      <<"b","u","i","l","t">>,
      <<"c","r","e","a","t","e","d">>,
      <<"s","k","i","l","l","s">>,
      <<"s","k","i","l","l">>,
      <<"a","b","i","l","i","t","i","e","s">>,
      <<"a","b","i","l","i","t","y">>,
      <<"p","r","o","f","i","c","i","e","n","t">>,
      <<"k","n","o","w","l","e","d","g","e">>,
      <<"s","t","r","o","n","g">>,
      <<"u","n","d","e","r","s","t","a","n","d","i","n","g">>,
      <<"e","t","c">> }

\* a tokenize that updates the module's EN_STOP in place (stop = EN_STOP)
build_stop_alias(en, custom, extra_stop) ==
    LET stop == en \cup custom \cup {str_lower(w) : w \in extra_stop}
    IN  [stop |-> stop, EN_STOP |-> stop, CUSTOM_STOP |-> custom]

\* lines 92-95: the local set `stop`, and the module sets after these lines
build_stop(en, custom, extra_stop) ==
    LET stop0 == en                         \* EN_STOP.copy()
        stop1 == stop0 \cup custom          \* stop.update(CUSTOM_STOP)
        stop2 == IF extra_stop # {}         \* if extra_stop:
                 THEN stop1 \cup {str_lower(w) : w \in extra_stop}
                 ELSE stop1
    IN  [stop |-> stop2, EN_STOP |-> en, CUSTOM_STOP |-> custom]

\* a length filter that lets two-character tokens through
keep_token_ge2(t, stop) == t \notin stop /\ Len(t) >= 2

\* line 97: the condition of the last list comprehension
keep_token(t, stop) == t \notin stop /\ Len(t) > 2

\* the value a tokenize call returns, and the module sets it leaves behind
tokenize(text, extra_stop, en, custom) ==
    LET text1  == unidecode(text)
        text2  == collapse_ws(text1, 1)
        found  == TOKEN_RE_findall(text2, 1)
        lowered == [i \in 1..Len(found) |-> str_lower(found[i])]
        NotDigits(t) == ~isdigit(t)
        nonnum == SelectSeq(lowered, NotDigits)
        b      == build_stop(en, custom, extra_stop)
        Keep(t) == keep_token(t, b.stop)
    IN  [tokens |-> SelectSeq(nonnum, Keep), text |-> text2,
         EN_STOP |-> b.EN_STOP, CUSTOM_STOP |-> b.CUSTOM_STOP]

(***************************************************************************)
(* Year extractor                                                          *)
(***************************************************************************)
DigitSeq == <<"0","1","2","3","4","5","6","7","8","9">>

digit_value(c) == (CHOOSE n \in 1..10 : DigitSeq[n] = c) - 1

\* int(year_str): the value, or ValueError when the string is not a number
RECURSIVE digits_value(_)
digits_value(s) ==
    IF Len(s) = 0 THEN 0
    ELSE 10 * digits_value(SubSeq(s, 1, Len(s) - 1)) + digit_value(s[Len(s)])

to_int(s) ==
    IF isdigit(s) THEN [ok |-> TRUE, value |-> digits_value(s)]
    ELSE [ok |-> FALSE, value |-> 0]

\* \b at the gap in front of position p (1 <= p <= Len(s) + 1)
word_boundary(s, p) ==
    LET before == p > 1 /\ IsWordChar(s[p - 1])
        after  == p <= Len(s) /\ IsWordChar(s[p])
    IN  before # after

\* 19\d{2}|20\d{2} at position i
year_at(s, i) ==
    /\ i >= 1 /\ i + 3 <= Len(s)
    /\ \/ s[i] = "1" /\ s[i + 1] = "9"
       \/ s[i] = "2" /\ s[i + 1] = "0"
    /\ s[i + 2] \in Digit /\ s[i + 3] \in Digit

\* re.IGNORECASE: the pattern letter p matches the character c
ic_eq(p, c) == lower_char(c) = p \/ (p = "s" /\ c = "U+017F")

\* the literal lit matches at position i, ignoring case
literal_at(s, i, lit) ==
    /\ i >= 1 /\ i + Len(lit) - 1 <= Len(s)
    /\ \A k \in 1..Len(lit) : ic_eq(lit[k], s[i + k - 1])

\* \s* from position i: the first position that is not whitespace
RECURSIVE skip_ws(_, _)
skip_ws(s, i) == IF i <= Len(s) /\ IsSpace(s[i]) THEN skip_ws(s, i + 1) ELSE i

L_to == <<"t","o">>

L_present == <<"p","r","e","s","e","n","t">>

L_now == <<"n","o","w">>

NoMatch == [end |-> 0, groups |-> <<>>]

\* first alternative of YEAR_RE at position i: \b(19\d{2}|20\d{2})\b
year_alt1(s, i) ==
    IF word_boundary(s, i) /\ year_at(s, i) /\ word_boundary(s, i + 4)
    THEN [end |-> i + 4, groups |-> <<SubSeq(s, i, i + 3), <<>>, <<>>>>]
    ELSE NoMatch

\* second alternative of YEAR_RE at position i:
\* \b(19\d{2}|20\d{2})\s*(?:-|en dash|to)\s*(19\d{2}|20\d{2}|present|now)\b
year_alt2(s, i) ==
    IF ~(word_boundary(s, i) /\ year_at(s, i)) THEN NoMatch
    ELSE
    LET j == skip_ws(s, i + 4)
        k == IF j <= Len(s) /\ s[j] \in {"-", "U+2013"} THEN 1
             ELSE IF literal_at(s, j, L_to) THEN 2
             ELSE 0
        m == skip_ws(s, j + k)
        n == IF year_at(s, m) /\ word_boundary(s, m + 4) THEN 4
             ELSE IF literal_at(s, m, L_present) /\ word_boundary(s, m + 7) THEN 7
             ELSE IF literal_at(s, m, L_now) /\ word_boundary(s, m + 3) THEN 3
             ELSE 0
    IN  IF k = 0 \/ n = 0 THEN NoMatch
        ELSE [end |-> m + n,
              groups |-> <<<<>>, SubSeq(s, i, i + 3), SubSeq(s, m, m + n - 1)>>]

\* the match of YEAR_RE that starts at position i, alternatives in order
year_match_at(s, i) ==
    LET a == year_alt1(s, i)
    IN  IF a.end # 0 THEN a ELSE year_alt2(s, i)

\* YEAR_RE.findall(raw_text) scanning from position i: one tuple of the
\* three groups per non-overlapping match, leftmost first
RECURSIVE YEAR_RE_findall(_, _)
YEAR_RE_findall(s, i) ==
    IF i > Len(s) THEN <<>>
    ELSE LET m == year_match_at(s, i)
         IN  IF m.end # 0 THEN <<m.groups>> \o YEAR_RE_findall(s, m.end)
             ELSE YEAR_RE_findall(s, i + 1)

\* a window without its lower end
in_window_no_floor(y, now) == y <= now + 1

\* line 109
in_window(y, now) == 1950 <= y /\ y <= now + 1

\* an append that skips a year already in the list
append_year_dedup(years, y) ==
    IF \E i \in 1..Len(years) : years[i] = y THEN years ELSE Append(years, y)

\* line 110
append_year(years, y) == Append(years, y)

\* lines 111-112: except ValueError: pass
on_value_error(acc) == acc

\* lines 105-112 for one group of one match; acc is the list so far and
\* whether an exception has left the function
year_of_group(acc, year_str, now) ==
    IF acc.raised THEN acc
    ELSE IF year_str # <<>> /\ str_lower(year_str) \notin {L_present, L_now}
    THEN LET r == to_int(year_str)
         IN  IF r.ok
             THEN IF in_window(r.value, now)
                  THEN [acc EXCEPT !.years = append_year(acc.years, r.value)]
                  ELSE acc
             ELSE on_value_error(acc)
    ELSE acc

\* lines 104-112: the loops over the matches and over their groups
RECURSIVE years_of_patterns(_, _, _)
years_of_patterns(found, acc, now) ==
    IF Len(found) = 0 THEN acc
    ELSE LET g == found[1]
             a1 == year_of_group(acc, g[1], now)
             a2 == year_of_group(a1, g[2], now)
             a3 == year_of_group(a2, g[3], now)
         IN  years_of_patterns(Tail(found), a3, now)

\* extract_year_mentions(raw_text) when datetime.now().year is now
extract_year_mentions(raw_text, now) ==
    years_of_patterns(YEAR_RE_findall(raw_text, 1), [years |-> <<>>, raised |-> FALSE], now)

(***************************************************************************)
(* Keyword analyzer                                                        *)
(***************************************************************************)
\* the text has exactly the characters of lit from position i
exact_at(s, i, lit) ==
    /\ i >= 1 /\ i + Len(lit) - 1 <= Len(s)
    /\ \A k \in 1..Len(lit) : s[i + k - 1] = lit[k]

\* line 204 at position i: r"\b" + re.escape(keyword.lower()) + r"\b"
keyword_match_at(s, i, kw) ==
    exact_at(s, i, kw) /\ word_boundary(s, i) /\ word_boundary(s, i + Len(kw))

\* line 205: len(re.findall(pattern, text_lower)) scanning from position i
RECURSIVE findall_count(_, _, _)
findall_count(s, i, kw) ==
    IF i > Len(s) THEN 0
    ELSE IF keyword_match_at(s, i, kw)
         THEN 1 + findall_count(s, i + Len(kw), kw)
         ELSE findall_count(s, i + 1, kw)

\* lines 200-206: the inner function count_keywords
count_keywords(text, keywords) ==
    LET text_lower == str_lower(text)
    IN  [i \in 1..Len(keywords) |->
            [keyword |-> keywords[i],
             count |-> findall_count(text_lower, 1, str_lower(keywords[i]))]]

\* lines 208-212: one entry per category, in the order of keyword_lists
analyze_keywords_data(raw_text, keyword_lists) ==
    [i \in 1..Len(keyword_lists) |->
        [category |-> keyword_lists[i].category,
         counts |-> count_keywords(raw_text, keyword_lists[i].keywords)]]

\* the keyword_lists of upload_file
AppKeywordLists ==
    <<
      [category |-> "Programming Languages",
       keywords |-> <<
            <<"p","y","t","h","o","n">>,
            <<"s","q","l">>,
            <<"j","a","v","a">>,
            <<"j","a","v","a","s","c","r","i","p","t">>,
            <<"r">>,
            <<"s","c","a","l","a">>,
            <<"c","+","+">>,
            <<"c","#">> >>],
      [category |-> "Data & Analytics",
       keywords |-> <<
            <<"d","a","t","a">>,
            <<"a","n","a","l","y","t","i","c","s">>,
            <<"m","a","c","h","i","n","e"," ","l","e","a","r","n","i","n","g">>,
            <<"a","i">>,
            <<"s","t","a","t","i","s","t","i","c","s">>,
            <<"v","i","s","u","a","l","i","z","a","t","i","o","n">>,
            <<"t","a","b","l","e","a","u">>,
            <<"p","o","w","e","r"," ","b","i">> >>],
      [category |-> "Cloud Platforms",
       keywords |-> <<
            <<"a","w","s">>,
            <<"a","z","u","r","e">>,
            <<"g","c","p">>,
            <<"g","o","o","g","l","e"," ","c","l","o","u","d">>,
            <<"c","l","o","u","d">> >>],
      [category |-> "Databases",
       keywords |-> <<
            <<"m","y","s","q","l">>,
            <<"p","o","s","t","g","r","e","s","q","l">>,
            <<"m","o","n","g","o","d","b">>,
            <<"o","r","a","c","l","e">>,
            <<"s","q","l"," ","s","e","r","v","e","r">>,
            <<"r","e","d","i","s">> >>],
      [category |-> "Management Skills",
       keywords |-> <<
            <<"l","e","a","d","e","r","s","h","i","p">>,
            <<"p","r","o","j","e","c","t"," ","m","a","n","a","g","e","m","e","n","t">>,
            <<"t","e","a","m">>,
            <<"s","t","r","a","t","e","g","y">>,
            <<"p","l","a","n","n","i","n","g">> >>],
      [category |-> "Technical Skills",
       keywords |-> <<
            <<"a","p","i">>,
            <<"m","i","c","r","o","s","e","r","v","i","c","e","s">>,
            <<"d","o","c","k","e","r">>,
            <<"k","u","b","e","r","n","e","t","e","s">>,
            <<"g","i","t">>,
            <<"c","i","/","c","d">> >>] >>

\* another caller-supplied configuration
OtherKeywordLists ==
    << [category |-> "Containers",
        keywords |-> << <<"c","o","n","t","a","i","n","e","r">>, <<"A","I">> >>] >>

KeywordConfigs == {AppKeywordLists, OtherKeywordLists}

\* the configurations the analyzer's callers pass, by name: the first
\* category of upload_file's keyword_lists, and the other configuration
CallerKeywordConfigs == {"languages", "other"}

CallerKeywordLists(name) ==
    IF name = "languages" THEN SubSeq(AppKeywordLists, 1, 1) ELSE OtherKeywordLists

(***************************************************************************)
(* Document reader                                                         *)
(***************************************************************************)
\* the last index of the character c in s, 0 when there is none (str.rfind)
rfind(s, c) ==
    LET hits == {i \in 1..Len(s) : s[i] = c}
    IN  IF hits = {} THEN 0 ELSE CHOOSE i \in hits : \A j \in hits : j <= i

\* os.path.splitext(p)[1]: from the last dot of the last path component,
\* unless that component has nothing but dots in front of it
splitext(p) ==
    LET sepIndex == rfind(p, "/")
        dotIndex == rfind(p, ".")
    IN  IF dotIndex > sepIndex
           /\ \E i \in (sepIndex + 1)..(dotIndex - 1) : p[i] # "."
        THEN SubSeq(p, dotIndex, Len(p))
        ELSE <<>>

\* os.path.basename(p)
basename(p) == SubSeq(p, rfind(p, "/") + 1, Len(p))

EXT_PDF == <<".","p","d","f">>

EXT_DOCX == <<".","d","o","c","x">>

EXT_TXT == <<".","t","x","t">>

\* lines 70-77: the branch read_any takes
read_any_branch(p) ==
    LET ext == splitext(str_lower(p))
    IN  IF ext = EXT_PDF THEN "pdf"
        ELSE IF ext = EXT_DOCX THEN "docx"
        ELSE IF ext = EXT_TXT THEN "txt"
        ELSE "other"

\* page.extract_text() or "": a page is <<>> (None) or <<text>>
RECURSIVE texts_of_pages(_)
texts_of_pages(pages) ==
    IF Len(pages) = 0 THEN <<>>
    ELSE <<IF pages[1] = <<>> THEN <<>> ELSE pages[1][1]>> \o texts_of_pages(Tail(pages))

LF == <<"LF">>

\* a test that takes any non-empty text as usable
out_nonempty(out) == out # <<>>

\* line 57: if out.strip()
out_usable(out) == strip(out) # <<>>

\* lines 51-60: the pdfplumber attempt; done says whether read_pdf returned
read_pdf_primary(outcome) ==
    IF outcome.raised
    THEN [done |-> FALSE, ret |-> <<>>]            \* except Exception: print(...)
    ELSE LET out == join(LF, texts_of_pages(outcome.value))
         IN  IF out_usable(out) THEN [done |-> TRUE, ret |-> out]
             ELSE [done |-> FALSE, ret |-> <<>>]

\* a fallback that answers a failure of PyPDF2 with the empty string
read_pdf_fallback_swallow(outcome) ==
    IF outcome.raised THEN [raised |-> FALSE, error |-> "none", ret |-> <<>>]
    ELSE [raised |-> FALSE, error |-> "none",
          ret |-> join(LF, texts_of_pages(outcome.value))]

\* lines 62-67: the PyPDF2 attempt, outside any try
read_pdf_fallback(outcome) ==
    IF outcome.raised THEN [raised |-> TRUE, error |-> outcome.error, ret |-> <<>>]
    ELSE [raised |-> FALSE, error |-> "none",
          ret |-> join(LF, texts_of_pages(outcome.value))]

\* lines 45-47
read_docx(outcome) ==
    IF outcome.raised THEN [raised |-> TRUE, error |-> outcome.error, ret |-> <<>>]
    ELSE [raised |-> FALSE, error |-> "none", ret |-> join(LF, outcome.value)]

\* lines 41-43
read_txt(outcome) ==
    IF outcome.raised THEN [raised |-> TRUE, error |-> outcome.error, ret |-> <<>>]
    ELSE [raised |-> FALSE, error |-> "none", ret |-> outcome.value]

\* an else branch without its try
read_other_unguarded(outcome) == read_txt(outcome)

\* lines 78-81: try: return read_txt(path) / except: return ""
read_other(outcome) ==
    LET r == read_txt(outcome)
    IN  IF r.raised THEN [raised |-> FALSE, error |-> "none", ret |-> <<>>] ELSE r

(***************************************************************************)
(* CVAnalyzer                                                              *)
(***************************************************************************)
\* Counter(tokens): one [word, count] per distinct token, in order of first
\* appearance
RECURSIVE Counter(_, _)
Counter(tokens, acc) ==
    IF Len(tokens) = 0 THEN acc
    ELSE LET w == tokens[1]
             hit == {i \in 1..Len(acc) : acc[i].word = w}
         IN  IF hit = {}
             THEN Counter(Tail(tokens), Append(acc, [word |-> w, count |-> 1]))
             ELSE LET i == CHOOSE i \in hit : TRUE
                  IN  Counter(Tail(tokens), [acc EXCEPT ![i].count = @ + 1])

\* lines 117-122, once read_any has returned raw_text
new_analyzer(file_path, raw_text, en, custom, now) ==
    LET tk == tokenize(raw_text, {}, en, custom)
        ym == extract_year_mentions(raw_text, now)
    IN  [file_path |-> file_path,
         file_name |-> basename(file_path),
         raw_text |-> raw_text,
         tokens |-> tk.tokens,
         normalized_text |-> tk.text,
         word_counts |-> Counter(tk.tokens, <<>>),
         year_mentions |-> ym.years]

\* len(set(xs))
distinct_count(xs) == Cardinality({xs[i] : i \in 1..Len(xs)})

\* a summary that reports the token count as the unique count
get_summary_no_set(me) ==
    [self |-> me,
     ret |-> [file_name |-> me.file_name,
              total_words |-> Len(me.tokens),
              unique_words |-> Len(me.tokens),
              raw_text_length |-> Len(me.raw_text),
              years_mentioned |-> Len(me.year_mentions)]]

\* lines 124-131
get_summary(me) ==
    [self |-> me,
     ret |-> [file_name |-> me.file_name,
              total_words |-> Len(me.tokens),
              unique_words |-> distinct_count(me.tokens),
              raw_text_length |-> Len(me.raw_text),
              years_mentioned |-> Len(me.year_mentions)]]

\* sorted(items, key=count, reverse=True): stable, larger counts first
RECURSIVE sorted_by_count(_, _)
sorted_by_count(items, acc) ==
    IF Len(items) = 0 THEN acc
    ELSE LET x == items[1]
             k == Cardinality({i \in 1..Len(acc) : acc[i].count >= x.count})
         IN  sorted_by_count(Tail(items),
                 SubSeq(acc, 1, k) \o <<x>> \o SubSeq(acc, k + 1, Len(acc)))

\* Counter.most_common(n)
most_common(counts, n) ==
    LET all == sorted_by_count(counts, <<>>)
    IN  SubSeq(all, 1, IF Len(all) < n THEN Len(all) ELSE n)

\* lines 153-173: the data of the bar chart; the instance is left as it is
plot_top_words_figure(me, n) ==
    LET top_words == most_common(me.word_counts, n)
    IN  [self |-> me,
         ret |-> <<[words |-> [i \in 1..Len(top_words) |-> top_words[i].word],
                    counts |-> [i \in 1..Len(top_words) |-> top_words[i].count]]>>]

\* sorted(xs) for integers
RECURSIVE sorted_ints(_, _)
sorted_ints(xs, acc) ==
    IF Len(xs) = 0 THEN acc
    ELSE LET k == Cardinality({i \in 1..Len(acc) : acc[i] <= xs[1]})
         IN  sorted_ints(Tail(xs), SubSeq(acc, 1, k) \o <<xs[1]>> \o SubSeq(acc, k + 1, Len(acc)))

\* the distinct elements of a sorted list, in order
RECURSIVE dedup_sorted(_)
dedup_sorted(xs) ==
    IF Len(xs) <= 1 THEN xs
    ELSE IF xs[1] = xs[2] THEN dedup_sorted(Tail(xs))
    ELSE <<xs[1]>> \o dedup_sorted(Tail(xs))

\* the chart of lines 180-182 for a list of year mentions
year_chart(mentions) ==
    LET years == dedup_sorted(sorted_ints(mentions, <<>>))
    IN  [years |-> years,
         counts |-> [i \in 1..Len(years) |->
                        Cardinality({k \in 1..Len(mentions) : mentions[k] = years[i]})]]

\* a chart method that sorts self.year_mentions in place
plot_year_mentions_figure_sorting(me) ==
    IF me.year_mentions = <<>> THEN [self |-> me, ret |-> <<>>]
    ELSE [self |-> [me EXCEPT !.year_mentions = sorted_ints(me.year_mentions, <<>>)],
          ret |-> <<year_chart(me.year_mentions)>>]

\* lines 175-196: None (<<>>) without year mentions, else the data of the chart
plot_year_mentions_figure(me) ==
    IF me.year_mentions = <<>> THEN [self |-> me, ret |-> <<>>]
    ELSE [self |-> me, ret |-> <<year_chart(me.year_mentions)>>]

\* lines 198-212 as a method
analyze_keywords(me, keyword_lists) ==
    [self |-> me, ret |-> analyze_keywords_data(me.raw_text, keyword_lists)]

\* lines 218-224: one [label, count] per keyword of every category
RECURSIVE flatten_results(_)
flatten_results(results) ==
    IF Len(results) = 0 THEN <<>>
    ELSE [j \in 1..Len(results[1].counts) |->
             [label |-> <<results[1].category, results[1].counts[j].keyword>>,
              count |-> results[1].counts[j].count]]
         \o flatten_results(Tail(results))

\* lines 214-250: None (<<>>) when no keyword has a match
plot_keywords_figure(me, keyword_lists) ==
    LET results == analyze_keywords(me, keyword_lists).ret
        sorted_data == sorted_by_count(flatten_results(results), <<>>)
        Positive(e) == e.count > 0
        shown == SelectSeq(sorted_data, Positive)
    IN  IF shown = <<>> THEN [self |-> me, ret |-> <<>>]
        ELSE [self |-> me, ret |-> <<shown>>]

(***************************************************************************)
(* The CVAnalyzer call and its environment                                 *)
(***************************************************************************)
Extractors == {"pdfplumber", "PyPDF2", "docx", "txt"}

NoAttempt == [e \in Extractors |-> <<>>]

NoCall == [method |-> "none", arg |-> "", value |-> <<>>]

NothingSeen == [kl \in CallerKeywordConfigs |-> <<>>]

(***************************************************************************)
(* Inputs of the tokenizer specification                                   *)
(***************************************************************************)
MaxTokPieces == 3

TokPieces ==
    { <<"t","o","o">>, <<"T","o","o","l">>, <<"l","o","t">>, <<"1">>,
      <<"-">>, <<"_">>, <<" ">>, <<"U+00DF">>, <<"+">> }

RECURSIVE Concats(_, _)
Concats(pieces, n) ==
    IF n = 0 THEN {<<>>}
    ELSE LET shorter == Concats(pieces, n - 1)
         IN  shorter \cup {s \o p : s \in shorter, p \in pieces}

TokTexts == Concats(TokPieces, MaxTokPieces)

ExtraStopSets == { {}, {<<"L","O","T">>}, {<<"t","o","o","-","l","o","t">>, <<"s","s">>} }

(***************************************************************************)
(* State                                                                   *)
(***************************************************************************)
tokVars == <<tok_raw, tok_call, tok_history>>

yearVars == <<year_raw, year_call>>

kwVars == <<kw_raw, kw_call>>

lifeVars == <<path, pc, attempt, read_calls, read_ret, exc, self, last_ret, kw_seen>>

upVars == <<request, uploads, up_pc, response>>

vars == <<EN_STOP, CUSTOM_STOP, tokVars, yearVars, kwVars, lifeVars, upVars>>

InitGlobals ==
    /\ EN_STOP = EnglishStopwords
    /\ CUSTOM_STOP = CustomStopwords

\* no CVAnalyzer call is made
NoAnalyzer ==
    /\ path = <<>> /\ pc = "none" /\ attempt = NoAttempt /\ read_calls = 0
    /\ read_ret = <<>> /\ exc = "none" /\ self = <<>>
    /\ last_ret = NoCall /\ kw_seen = NothingSeen

\* no request is handled
NoUpload ==
    /\ request = <<>> /\ uploads = {} /\ up_pc = "none" /\ response = <<>>

(***************************************************************************)
(* Tokenizer specification: any sequence of tokenize calls on a text       *)
(***************************************************************************)
InitTok ==
    /\ InitGlobals /\ NoAnalyzer /\ NoUpload
    /\ tok_raw \in TokTexts
    /\ tok_call = <<>>
    /\ tok_history = {}
    /\ year_raw = <<>> /\ year_call = <<>>
    /\ kw_raw = <<>> /\ kw_call = <<>>

Tokenize ==
    \E extra \in ExtraStopSets :
        LET r == tokenize(tok_raw, extra, EN_STOP, CUSTOM_STOP)
        IN  /\ tok_call' = <<[extra_stop |-> extra, tokens |-> r.tokens, text |-> r.text]>>
            /\ EN_STOP' = r.EN_STOP
            /\ CUSTOM_STOP' = r.CUSTOM_STOP
            /\ tok_history' = tok_history \cup {tok_call[i].extra_stop : i \in 1..Len(tok_call)}
            /\ UNCHANGED <<tok_raw, yearVars, kwVars, lifeVars, upVars>>

NextTok == Tokenize

SpecTok == InitTok /\ [][NextTok]_vars

(***************************************************************************)
(* Properties of the tokenizer                                             *)
(***************************************************************************)
Joiner == {"-", "_"}

\* t is, as a whole, alphanumeric runs joined by single '-' or '_'
MatchesTokenPattern(t) ==
    /\ Len(t) > 0
    /\ \A i \in 1..Len(t) : IsAlnum(t[i]) \/ t[i] \in Joiner
    /\ IsAlnum(t[1]) /\ IsAlnum(t[Len(t)])
    /\ \A i \in 1..(Len(t) - 1) : ~(t[i] \in Joiner /\ t[i + 1] \in Joiner)

\* a token of the text starts at i: an alphanumeric character that neither
\* continues a run nor is joined to one
IsTokenStart(s, i) ==
    /\ IsAlnum(s[i])
    /\ ~(i > 1 /\ IsAlnum(s[i - 1]))
    /\ ~(i > 2 /\ s[i - 1] \in Joiner /\ IsAlnum(s[i - 2]))

\* the longest piece of the text from i that matches the token pattern
LongestTokenFrom(s, i) ==
    LET ends == {e \in i..Len(s) : MatchesTokenPattern(SubSeq(s, i, e))}
        last == CHOOSE e \in ends : \A e2 \in ends : e2 <= e
    IN  SubSeq(s, i, last)

\* the tokens of the text in order of appearance, one per occurrence
RECURSIVE TokensInOrder(_, _)
TokensInOrder(s, i) ==
    IF i > Len(s) THEN <<>>
    ELSE IF IsTokenStart(s, i)
         THEN <<str_lower(LongestTokenFrom(s, i))>> \o TokensInOrder(s, i + 1)
         ELSE TokensInOrder(s, i + 1)

CombinedStop(extra_stop) ==
    EnglishStopwords \cup CustomStopwords \cup {str_lower(w) : w \in extra_stop}

IsAdmissibleToken(t, extra_stop) ==
    /\ MatchesTokenPattern(t)
    /\ \A i \in 1..Len(t) : t[i] \notin Upper
    /\ Len(t) > 2
    /\ \E i \in 1..Len(t) : t[i] \notin Digit
    /\ t \notin CombinedStop(extra_stop)

\* C4: every token tokenize returns matches the token pattern, is lowercase,
\* is longer than 2, is not purely numeric and is in none of the English,
\* custom and lowercased extra stopwords; the tokens are the admissible
\* tokens of the text in order of appearance, one per occurrence.
C4_TokensAdmissibleInOrder ==
    tok_call # <<>> =>
        LET c == tok_call[1]
            Admissible(t) == IsAdmissibleToken(t, c.extra_stop)
        IN  /\ \A i \in 1..Len(c.tokens) : Admissible(c.tokens[i])
            /\ c.tokens = SelectSeq(TokensInOrder(c.text, 1), Admissible)

\* a call with extra stopwords on a text with an upper-case letter that
\* dropped some candidate and kept another
C4_Witness ==
    /\ tok_call # <<>>
    /\ tok_call[1].extra_stop # {}
    /\ \E i \in 1..Len(tok_raw) : tok_raw[i] \in Upper
    /\ Len(TOKEN_RE_findall(tok_call[1].text, 1)) > Len(tok_call[1].tokens)
    /\ Len(tok_call[1].tokens) > 0

\* C9: whatever tokenize calls came before, a call returns what a call on a
\* freshly loaded module returns, and the module-level stopword sets are
\* the ones the module was loaded with.
C9_TokenizeDeterministic ==
    /\ EN_STOP = EnglishStopwords
    /\ CUSTOM_STOP = CustomStopwords
    /\ tok_call # <<>> =>
          tok_call[1].tokens =
              tokenize(tok_raw, tok_call[1].extra_stop,
                       EnglishStopwords, CustomStopwords).tokens

\* a call without extra stopwords returns "lot" after an earlier call was
\* given "LOT" as an extra stopword
C9_Witness ==
    /\ tok_call # <<>>
    /\ tok_call[1].extra_stop = {}
    /\ {<<"L","O","T">>} \in tok_history
    /\ \E i \in 1..Len(tok_call[1].tokens) : tok_call[1].tokens[i] = <<"l","o","t">>

(***************************************************************************)
(* Year extractor specification: extract_year_mentions on a text           *)
(***************************************************************************)
MaxYearPieces == 3

YearPieces ==
    { <<"1","9","5","0">>, <<"2","0","2","8">>, <<"1","9","4","9">>,
      <<"1","8","7","5">>, <<"9">>, <<"-">>, <<"U+2013">>, <<"t","o">>,
      <<" ">>, <<"p","r","e","s","e","n","t">>, <<"N","O","W">>, <<"x">>,
      <<"p","r","e","U+017F","e","n","t">> }

YearTexts == Concats(YearPieces, MaxYearPieces)

\* the values datetime.now().year takes
NowYears == {2026, 2027}

InitYear ==
    /\ InitGlobals /\ NoAnalyzer /\ NoUpload
    /\ tok_raw = <<>> /\ tok_call = <<>> /\ tok_history = {}
    /\ year_raw \in YearTexts
    /\ year_call = <<>>
    /\ kw_raw = <<>> /\ kw_call = <<>>

ExtractYears ==
    \E now \in NowYears :
        LET r == extract_year_mentions(year_raw, now)
        IN  /\ year_call' = <<[now |-> now, years |-> r.years, raised |-> r.raised]>>
            /\ UNCHANGED <<EN_STOP, CUSTOM_STOP, tokVars, year_raw, kwVars, lifeVars, upVars>>

NextYear == ExtractYears

SpecYear == InitYear /\ [][NextYear]_vars

(***************************************************************************)
(* Properties of the year extractor                                        *)
(***************************************************************************)
YearValueAt(s, i) == digits_value(SubSeq(s, i, i + 3))

InYearWindow(y, now) == y >= 1950 /\ y <= now + 1

\* a 19xx/20xx year at i with a word boundary on both sides
StandaloneYearAt(s, i) ==
    year_at(s, i) /\ word_boundary(s, i) /\ word_boundary(s, i + 4)

OnlySpaceBetween(s, a, b) == \A x \in a..(b - 1) : IsSpace(s[x])

ConnectorAt(s, j, k) ==
    \/ k = 1 /\ j <= Len(s) /\ s[j] \in {"-", "U+2013"}
    \/ k = 2 /\ literal_at(s, j, L_to)

RangeEndYearAt(s, m) == year_at(s, m) /\ word_boundary(s, m + 4)

RangeEndWordAt(s, m) ==
    \/ literal_at(s, m, L_present) /\ word_boundary(s, m + 7)
    \/ literal_at(s, m, L_now) /\ word_boundary(s, m + 3)

\* "YEAR connector END" is written from i, with END starting at m
RangeAt(s, i, m) ==
    /\ year_at(s, i) /\ word_boundary(s, i)
    /\ \E j \in (i + 4)..Len(s), k \in {1, 2} :
          /\ OnlySpaceBetween(s, i + 4, j)
          /\ ConnectorAt(s, j, k)
          /\ j + k <= m
          /\ OnlySpaceBetween(s, j + k, m)
    /\ RangeEndYearAt(s, m) \/ RangeEndWordAt(s, m)

\* a range whose start year is written directly against "to" (2015to2019),
\* so that the start is not a year with a word boundary on both sides
GluedRangeAt(s, i, m) == RangeAt(s, i, m) /\ ~StandaloneYearAt(s, i)

\* a year mention: a year at i that is delimited by word boundaries or is
\* an endpoint of a range written against "to"
IsYearMention(s, i) ==
    /\ year_at(s, i)
    /\ \/ StandaloneYearAt(s, i)
       \/ \E m \in 1..Len(s) : GluedRangeAt(s, i, m)
       \/ \E j \in 1..Len(s) : GluedRangeAt(s, j, i)

RECURSIVE MentionedYears(_, _, _)
MentionedYears(s, i, now) ==
    IF i > Len(s) THEN <<>>
    ELSE IF IsYearMention(s, i) /\ InYearWindow(YearValueAt(s, i), now)
         THEN <<YearValueAt(s, i)>> \o MentionedYears(s, i + 1, now)
         ELSE MentionedYears(s, i + 1, now)

CountOf(seq, y) == Cardinality({k \in 1..Len(seq) : seq[k] = y})

\* a number of the text: a maximal run of digits from i to e
IsNumberAt(s, i, e) ==
    /\ i <= e /\ e <= Len(s)
    /\ \A x \in i..e : s[x] \in Digit
    /\ ~(i > 1 /\ s[i - 1] \in Digit)
    /\ ~(e < Len(s) /\ s[e + 1] \in Digit)

\* C6: every returned year is inside [1950, current year + 1]; every
\* word-boundary-delimited 19xx/20xx year inside the window is returned;
\* an entry comes only from a number of the text that is exactly a
\* four-digit 19xx/20xx year inside the window; the call never raises.
C6_WindowAndStandalone ==
    year_call # <<>> =>
        LET c == year_call[1]
            s == year_raw
            standalone(y) == {i \in 1..Len(s) : StandaloneYearAt(s, i) /\ YearValueAt(s, i) = y}
            numbers(y) == {i \in 1..Len(s) :
                              IsNumberAt(s, i, i + 3) /\ year_at(s, i) /\ YearValueAt(s, i) = y}
        IN  /\ ~c.raised
            /\ \A k \in 1..Len(c.years) : InYearWindow(c.years[k], c.now)
            /\ \A i \in 1..Len(s) :
                  StandaloneYearAt(s, i) /\ InYearWindow(YearValueAt(s, i), c.now) =>
                      CountOf(c.years, YearValueAt(s, i)) >=
                          Cardinality(standalone(YearValueAt(s, i)))
            /\ \A k \in 1..Len(c.years) :
                  CountOf(c.years, c.years[k]) <= Cardinality(numbers(c.years[k]))

\* a text with a year inside the window and a 19xx/20xx year outside it:
\* the first is returned, the second is not
C6_Witness ==
    /\ year_call # <<>>
    /\ Len(year_call[1].years) > 0
    /\ \E i \in 1..Len(year_raw) :
          StandaloneYearAt(year_raw, i) /\ ~InYearWindow(YearValueAt(year_raw, i), year_call[1].now)

(***************************************************************************)
(* Keyword analyzer specification: analyze_keywords_data on a text         *)
(***************************************************************************)
MaxKwPieces == 3

KwPieces ==
    { <<"a","i">>, <<"A","I">>, <<"s">>, <<"d">>, <<"c","+","+">>, <<"C","#">>,
      <<"c","i","/","c","d">>, <<"m","a","c","h","i","n","e">>, <<" ">>,
      <<"l","e","a","r","n","i","n","g">>, <<"c","o","n","t","a","i","n","e","r">>,
      <<"r">>, <<".">>, <<"_">> }

KwTexts == Concats(KwPieces, MaxKwPieces)

InitKw ==
    /\ InitGlobals /\ NoAnalyzer /\ NoUpload
    /\ tok_raw = <<>> /\ tok_call = <<>> /\ tok_history = {}
    /\ year_raw = <<>> /\ year_call = <<>>
    /\ kw_raw \in KwTexts
    /\ kw_call = <<>>

AnalyzeKeywords ==
    \E kl \in KeywordConfigs :
        /\ kw_call' = <<[keyword_lists |-> kl, results |-> analyze_keywords_data(kw_raw, kl)]>>
        /\ UNCHANGED <<EN_STOP, CUSTOM_STOP, tokVars, yearVars, kw_raw, lifeVars, upVars>>

NextKw == AnalyzeKeywords

SpecKw == InitKw /\ [][NextKw]_vars

(***************************************************************************)
(* Properties of the keyword analyzer                                      *)
(***************************************************************************)
\* kw occurs at i, ignoring case, neither preceded nor followed by a
\* letter, a digit or an underscore
WholeWordAt(s, i, kw) ==
    /\ i >= 1 /\ i + Len(kw) - 1 <= Len(s)
    /\ str_lower(SubSeq(s, i, i + Len(kw) - 1)) = str_lower(kw)
    /\ ~(i > 1 /\ IsWordChar(s[i - 1]))
    /\ ~(i + Len(kw) <= Len(s) /\ IsWordChar(s[i + Len(kw)]))

\* the number of non-overlapping whole-word occurrences from position i
RECURSIVE WholeWordCount(_, _, _)
WholeWordCount(s, i, kw) ==
    IF i > Len(s) THEN 0
    ELSE IF WholeWordAt(s, i, kw)
         THEN 1 + WholeWordCount(s, i + Len(kw), kw)
         ELSE WholeWordCount(s, i + 1, kw)

\* C7: for every configured keyword the count analyze_keywords_data returns
\* is the number of non-overlapping case-insensitive whole-word occurrences
\* of the keyword in the raw text.
C7_WholeWordCounts ==
    kw_call # <<>> =>
        \A i \in 1..Len(kw_call[1].results) :
            \A j \in 1..Len(kw_call[1].results[i].counts) :
                LET e == kw_call[1].results[i].counts[j]
                IN  e.count = WholeWordCount(kw_raw, 1, e.keyword)

(***************************************************************************)
(* Analyzer specification: one CVAnalyzer(file_path) call and any sequence *)
(* of method calls on the instance it returns                              *)
(***************************************************************************)
MaxPages == 2

MaxParagraphs == 2

\* the paths "a.Pdf", "a.docx", "a.Txt", "a.md", "a", ".pdf" and "b.pdf/a"
PATH_a_pdf == <<"a",".","P","d","f">>

PATH_a_docx == <<"a",".","d","o","c","x">>

PATH_a_txt == <<"a",".","T","x","t">>

PATH_a_md == <<"a",".","m","d">>

PATH_a == <<"a">>

PATH_dot_pdf == <<".","p","d","f">>

PATH_dir == <<"b",".","p","d","f","/","a">>

\* the texts the extractors give: " \t", "Api 2028 api 1950", "the Tool",
\* "AI 2028", "C# said ai 1950to2028" and "api git api"
TEXT_blank == <<" ","TAB">>

TEXT_page == <<"A","p","i"," ","2","0","2","8"," ","a","p","i"," ","1","9","5","0">>

TEXT_para1 == <<"t","h","e"," ","T","o","o","l">>

TEXT_para2 == <<"A","I"," ","2","0","2","8">>

TEXT_txt1 == <<"C","#"," ","s","a","i","d"," ","a","i"," ","1","9","5","0","t","o","2","0","2","8">>

TEXT_txt2 == <<"a","p","i"," ","g","i","t"," ","a","p","i">>

RECURSIVE SeqsUpTo(_, _)
SeqsUpTo(S, n) ==
    IF n = 0 THEN {<<>>}
    ELSE LET shorter == SeqsUpTo(S, n - 1)
         IN  shorter \cup {Append(q, x) : q \in shorter, x \in S}

Paths ==
    { PATH_a_pdf, PATH_a_docx, PATH_a_txt, PATH_a_md,
      PATH_a, PATH_dot_pdf, PATH_dir }

\* what page.extract_text() gives: None, whitespace or text
PageResults == { <<>>, <<TEXT_blank>>, <<TEXT_page>> }

Failure(error) == [raised |-> TRUE, error |-> error, value |-> <<>>]

Success(value) == [raised |-> FALSE, error |-> "none", value |-> value]

PdfOutcomes(error) ==
    {Failure(error)} \cup {Success(pages) : pages \in SeqsUpTo(PageResults, MaxPages)}

DocxOutcomes ==
    {Failure("DocxError")} \cup
    {Success(ps) : ps \in SeqsUpTo({<<>>, TEXT_para1, TEXT_para2}, MaxParagraphs)}

TxtOutcomes ==
    {Failure("OSError")} \cup {Success(x) : x \in {<<>>, TEXT_txt1, TEXT_txt2}}

Init ==
    /\ InitGlobals /\ NoUpload
    /\ tok_raw = <<>> /\ tok_call = <<>> /\ tok_history = {}
    /\ year_raw = <<>> /\ year_call = <<>>
    /\ kw_raw = <<>> /\ kw_call = <<>>
    /\ path \in Paths
    /\ pc = "new"
    /\ attempt = NoAttempt
    /\ read_calls = 0
    /\ read_ret = <<>>
    /\ exc = "none"
    /\ self = <<>>
    /\ last_ret = NoCall
    /\ kw_seen = NothingSeen

Others == <<EN_STOP, CUSTOM_STOP, tokVars, yearVars, kwVars, upVars>>

\* read_any returned or raised: line 119 goes on or the constructor is left
ReadAnyEnds(r) ==
    IF r.raised
    THEN /\ pc' = "raised" /\ exc' = r.error /\ read_ret' = <<>>
    ELSE /\ pc' = "read_done" /\ exc' = "none" /\ read_ret' = <<r.ret>>

\* CVAnalyzer(path) with a .pdf path: lines 117-119 and read_pdf, lines 51-60
PdfPrimary ==
    /\ pc = "new" /\ read_any_branch(path) = "pdf"
    /\ \E o \in PdfOutcomes("PdfplumberError") :
          LET r == read_pdf_primary(o)
          IN  /\ attempt' = [attempt EXCEPT !["pdfplumber"] = <<o>>]
              /\ IF r.done
                 THEN /\ pc' = "read_done" /\ read_ret' = <<r.ret>>
                 ELSE /\ pc' = "pdf_fallback" /\ read_ret' = <<>>
    /\ read_calls' = read_calls + 1
    /\ UNCHANGED <<Others, path, exc, self, last_ret, kw_seen>>

\* read_pdf, lines 62-67
PdfFallback ==
    /\ pc = "pdf_fallback"
    /\ \E o \in PdfOutcomes("PyPDF2Error") :
          /\ attempt' = [attempt EXCEPT !["PyPDF2"] = <<o>>]
          /\ ReadAnyEnds(read_pdf_fallback(o))
    /\ UNCHANGED <<Others, path, read_calls, self, last_ret, kw_seen>>

\* CVAnalyzer(path) with a .docx path
ReadDocx ==
    /\ pc = "new" /\ read_any_branch(path) = "docx"
    /\ \E o \in DocxOutcomes :
          /\ attempt' = [attempt EXCEPT !["docx"] = <<o>>]
          /\ ReadAnyEnds(read_docx(o))
    /\ read_calls' = read_calls + 1
    /\ UNCHANGED <<Others, path, self, last_ret, kw_seen>>

\* CVAnalyzer(path) with a .txt path
ReadTxt ==
    /\ pc = "new" /\ read_any_branch(path) = "txt"
    /\ \E o \in TxtOutcomes :
          /\ attempt' = [attempt EXCEPT !["txt"] = <<o>>]
          /\ ReadAnyEnds(read_txt(o))
    /\ read_calls' = read_calls + 1
    /\ UNCHANGED <<Others, path, self, last_ret, kw_seen>>

\* CVAnalyzer(path) with any other path: lines 77-81
ReadOther ==
    /\ pc = "new" /\ read_any_branch(path) = "other"
    /\ \E o \in TxtOutcomes :
          /\ attempt' = [attempt EXCEPT !["txt"] = <<o>>]
          /\ ReadAnyEnds(read_other(o))
    /\ read_calls' = read_calls + 1
    /\ UNCHANGED <<Others, path, self, last_ret, kw_seen>>

\* lines 119-122: the fields are set from the text read_any returned
FinishInit ==
    /\ pc = "read_done"
    /\ \E now \in NowYears :
          LET tk == tokenize(read_ret[1], {}, EN_STOP, CUSTOM_STOP)
          IN  /\ self' = <<new_analyzer(path, read_ret[1], EN_STOP, CUSTOM_STOP, now)>>
              /\ EN_STOP' = tk.EN_STOP
              /\ CUSTOM_STOP' = tk.CUSTOM_STOP
    /\ pc' = "ready"
    /\ UNCHANGED <<tokVars, yearVars, kwVars, upVars, path, attempt, read_calls,
                   read_ret, exc, last_ret, kw_seen>>

Returned(method, arg, r) ==
    /\ self' = <<r.self>>
    /\ last_ret' = [method |-> method, arg |-> arg, value |-> r.ret]

GetSummary ==
    /\ pc = "ready"
    /\ Returned("get_summary", "", get_summary(self[1]))
    /\ UNCHANGED <<Others, path, pc, attempt, read_calls, read_ret, exc, kw_seen>>

AnalyzeKeywordsData ==
    /\ pc = "ready"
    /\ \E kl \in CallerKeywordConfigs :
          LET r == analyze_keywords(self[1], CallerKeywordLists(kl))
          IN  /\ Returned("analyze_keywords_data", kl, r)
              /\ kw_seen' = IF kw_seen[kl] = <<>>
                            THEN [kw_seen EXCEPT ![kl] = <<r.ret>>]
                            ELSE [kw_seen EXCEPT ![kl] = <<kw_seen[kl][1], r.ret>>]
    /\ UNCHANGED <<Others, path, pc, attempt, read_calls, read_ret, exc>>

PlotKeywordsFigure ==
    /\ pc = "ready"
    /\ \E kl \in CallerKeywordConfigs :
          Returned("plot_keywords_figure", kl,
                   plot_keywords_figure(self[1], CallerKeywordLists(kl)))
    /\ UNCHANGED <<Others, path, pc, attempt, read_calls, read_ret, exc, kw_seen>>

TopWordsN == 20

PlotTopWordsFigure ==
    /\ pc = "ready"
    /\ Returned("plot_top_words_figure", "", plot_top_words_figure(self[1], TopWordsN))
    /\ UNCHANGED <<Others, path, pc, attempt, read_calls, read_ret, exc, kw_seen>>

PlotYearMentionsFigure ==
    /\ pc = "ready"
    /\ Returned("plot_year_mentions_figure", "", plot_year_mentions_figure(self[1]))
    /\ UNCHANGED <<Others, path, pc, attempt, read_calls, read_ret, exc, kw_seen>>

Next ==
    \/ PdfPrimary
    \/ PdfFallback
    \/ ReadDocx
    \/ ReadTxt
    \/ ReadOther
    \/ FinishInit
    \/ GetSummary
    \/ AnalyzeKeywordsData
    \/ PlotKeywordsFigure
    \/ PlotTopWordsFigure
    \/ PlotYearMentionsFigure

Spec == Init /\ [][Next]_vars

(***************************************************************************)
(* Properties of the document reader                                       *)
(***************************************************************************)
IsWhitespaceOnly(s) == \A i \in 1..Len(s) : IsSpace(s[i])

\* the page texts of an extractor that did not raise, joined by newlines
PagesJoined(o) == join(LF, texts_of_pages(o.value))

\* the extractor raised, or its page texts joined by newlines are
\* whitespace-only
ExtractorFailed(o) == o.raised \/ IsWhitespaceOnly(PagesJoined(o))

\* C1: in read_pdf PyPDF2 is attempted if and only if pdfplumber raised or
\* gave whitespace-only text; usable pdfplumber text is returned without
\* PyPDF2 running; when PyPDF2 runs and completes its text is returned; the
\* exception of pdfplumber never leaves read_pdf.
C1_FallbackIffPrimaryFails ==
    LET p == attempt["pdfplumber"]
        q == attempt["PyPDF2"]
    IN  /\ q # <<>> => p # <<>> /\ ExtractorFailed(p[1])
        /\ (p # <<>> /\ ExtractorFailed(p[1])) => (pc = "pdf_fallback" \/ q # <<>>)
        /\ (p # <<>> /\ ~ExtractorFailed(p[1])) =>
              q = <<>> /\ read_ret = <<PagesJoined(p[1])>>
        /\ (q # <<>> /\ ~q[1].raised) => read_ret = <<PagesJoined(q[1])>>
        /\ exc # "PdfplumberError"

\* pdfplumber gave two or more pages of whitespace, PyPDF2 ran and its text
\* was returned
C1_Witness ==
    /\ attempt["pdfplumber"] # <<>> /\ attempt["PyPDF2"] # <<>>
    /\ ~attempt["pdfplumber"][1].raised
    /\ Len(PagesJoined(attempt["pdfplumber"][1])) > 1
    /\ ~attempt["PyPDF2"][1].raised
    /\ read_ret # <<>> /\ ~IsWhitespaceOnly(read_ret[1])

\* C2: when pdfplumber raises and then PyPDF2 raises, read_any returns no
\* text, the error of PyPDF2 leaves the constructor and no instance exists;
\* an exception that left the constructor never comes with an instance.
C2_BothExtractorsFail ==
    LET p == attempt["pdfplumber"]
        q == attempt["PyPDF2"]
    IN  /\ (p # <<>> /\ q # <<>> /\ p[1].raised /\ q[1].raised) =>
              /\ pc = "raised" /\ exc = "PyPDF2Error"
              /\ read_ret = <<>> /\ self = <<>>
        /\ exc # "none" => self = <<>> /\ read_ret = <<>>

C2_Witness ==
    /\ attempt["pdfplumber"] # <<>> /\ attempt["pdfplumber"][1].raised
    /\ attempt["PyPDF2"] # <<>> /\ attempt["PyPDF2"][1].raised

\* the extension of the path, compared without case, is none of the three
HasOtherExtension(p) == str_lower(splitext(p)) \notin {EXT_PDF, EXT_DOCX, EXT_TXT}

\* C3: for a path with another extension read_any never raises; it returns
\* the content when the plain read succeeds and "" when it fails, and the
\* CVAnalyzer built on a failed read has no tokens and reports
\* total_words = 0.
C3_OtherExtensionNeverRaises ==
    HasOtherExtension(path) =>
        LET t == attempt["txt"]
        IN  /\ exc = "none" /\ pc # "raised"
            /\ attempt["pdfplumber"] = <<>> /\ attempt["PyPDF2"] = <<>> /\ attempt["docx"] = <<>>
            /\ t # <<>> => read_ret = <<IF t[1].raised THEN <<>> ELSE t[1].value>>
            /\ (t # <<>> /\ t[1].raised /\ self # <<>>) =>
                  /\ self[1].raw_text = <<>> /\ self[1].tokens = <<>>
                  /\ last_ret.method = "get_summary" => last_ret.value.total_words = 0

\* the plain read of a path with another extension failed and get_summary
\* was called on the instance
C3_Witness ==
    /\ HasOtherExtension(path)
    /\ attempt["txt"] # <<>> /\ attempt["txt"][1].raised
    /\ last_ret.method = "get_summary"

(***************************************************************************)
(* Properties of the CVAnalyzer                                            *)
(***************************************************************************)
RECURSIVE SumOfCounts(_)
SumOfCounts(counts) ==
    IF Len(counts) = 0 THEN 0 ELSE counts[1].count + SumOfCounts(Tail(counts))

\* C8: get_summary reports the number of tokens (the sum of the counts of
\* word_counts), the number of distinct tokens (the number of keys of
\* word_counts, at most the number of tokens), the length of raw_text and
\* the number of year mentions; all four are 0 for an empty raw text.
C8_SummaryCounts ==
    last_ret.method = "get_summary" =>
        LET v == last_ret.value
            me == self[1]
        IN  /\ v.total_words = Len(me.tokens)
            /\ v.total_words = SumOfCounts(me.word_counts)
            /\ v.unique_words = Cardinality({me.tokens[i] : i \in 1..Len(me.tokens)})
            /\ v.unique_words = Len(me.word_counts)
            /\ v.unique_words <= v.total_words
            /\ v.raw_text_length = Len(me.raw_text)
            /\ v.years_mentioned = Len(me.year_mentions)
            /\ me.raw_text = <<>> =>
                  /\ v.total_words = 0 /\ v.unique_words = 0
                  /\ v.raw_text_length = 0 /\ v.years_mentioned = 0

\* a summary of a text with a repeated token and year mentions
C8_Witness ==
    /\ last_ret.method = "get_summary"
    /\ last_ret.value.unique_words < last_ret.value.total_words
    /\ last_ret.value.years_mentioned > 0

\* C10: an instance comes from exactly one read_any call; no method call
\* changes the instance (raw_text, tokens, word_counts, year_mentions) or
\* reads the document again; analyze_keywords_data called again with the
\* same configuration returns what it returned the first time.
C10_ReadOnceAndFrame ==
    /\ [](pc = "ready" => read_calls = 1)
    /\ [](\A kl \in CallerKeywordConfigs :
             Len(kw_seen[kl]) = 2 => kw_seen[kl][1] = kw_seen[kl][2])
    /\ [][pc = "ready" => (self' = self /\ read_calls' = read_calls)]_vars

\* the year chart was drawn for an instance whose year mentions are not in
\* ascending order, and analyze_keywords_data was called twice with the
\* same configuration
C10_Witness ==
    /\ last_ret.method = "plot_year_mentions_figure"
    /\ \E i \in 1..(Len(self[1].year_mentions) - 1) :
          self[1].year_mentions[i] > self[1].year_mentions[i + 1]
    /\ \E kl \in CallerKeywordConfigs : Len(kw_seen[kl]) = 2

(***************************************************************************)
(* The upload handler: upload_file of app.py                               *)
(***************************************************************************)
\* app.config['UPLOAD_FOLDER'], line 21
UPLOAD_FOLDER == <<"u","p","l","o","a","d","s">>

\* os.path.join(a, b): an absolute b replaces a, else one "/" separates them
os_path_join(a, b) ==
    IF b # <<>> /\ b[1] = "/" THEN b
    ELSE IF a = <<>> \/ a[Len(a)] = "/" THEN a \o b
    ELSE a \o <<"/">> \o b

\* lines 69-81 with read_pdf (lines 49-67): what read_any(p) returns or
\* raises when the extractors it runs end as first and second say
read_any(p, first, second) ==
    LET branch == read_any_branch(p)
    IN  IF branch = "pdf"
        THEN LET r == read_pdf_primary(first)
             IN  IF r.done THEN [raised |-> FALSE, error |-> "none", ret |-> r.ret]
                 ELSE read_pdf_fallback(second)
        ELSE IF branch = "docx" THEN read_docx(first)
        ELSE IF branch = "txt" THEN read_txt(first)
        ELSE read_other(first)

\* the extractors read_any(p) runs, each with how it ended
attempts_of(p, first, second) ==
    LET branch == read_any_branch(p)
    IN  IF branch = "pdf"
        THEN [NoAttempt EXCEPT !["pdfplumber"] = <<first>>,
                               !["PyPDF2"] = IF read_pdf_primary(first).done
                                             THEN <<>> ELSE <<second>>]
        ELSE IF branch = "docx" THEN [NoAttempt EXCEPT !["docx"] = <<first>>]
        ELSE [NoAttempt EXCEPT !["txt"] = <<first>>]

\* lines 133-151: WordCloud(...).generate(" ".join(self.tokens)) raises
\* ValueError when it finds no word to draw; finds_word is the library's
\* answer (it drops its own stopwords and plain numbers)
generate_word_cloud_figure(me, finds_word) ==
    IF finds_word THEN Success(<<[cloud_of |-> me.tokens]>>)
    ELSE Failure("ValueError")

\* lines 27-34: fig.savefig(...) is an AttributeError when fig is None
create_plot_base64(fig) ==
    IF fig = <<>> THEN Failure("AttributeError")
    ELSE Success([png_of |-> fig[1]])

\* analyzer.get_ai_analysis(api_key=...): an opaque collaborator that
\* returns a structured record, from mock data without an API key
get_ai_analysis(me, api_key) ==
    Success([source |-> IF api_key = <<>> THEN "mock" ELSE "openai",
             file_name |-> me.file_name])

\* os.remove(p) on a folder holding files
os_remove(files, p) ==
    IF p \in files THEN Success(files \ {p})
    ELSE Failure("FileNotFoundError")

(***************************************************************************)
(* Upload specification: one POST /upload request, from its arrival to the *)
(* response                                                                *)
(***************************************************************************)
\* request.files has no 'file' part, or a part with a filename ("" when no
\* file was selected)
Requests ==
    {[has_file |-> FALSE, filename |-> <<>>]} \cup
    {[has_file |-> TRUE, filename |-> f] : f \in {<<>>} \cup Paths}

\* os.environ.get('OPENAI_API_KEY'): None or a key
ApiKeys == { <<>>, <<"k">> }

InitUpload ==
    /\ InitGlobals /\ NoAnalyzer
    /\ tok_raw = <<>> /\ tok_call = <<>> /\ tok_history = {}
    /\ year_raw = <<>> /\ year_call = <<>>
    /\ kw_raw = <<>> /\ kw_call = <<>>
    /\ request \in {<<r>> : r \in Requests}
    /\ uploads = {}
    /\ up_pc = "start"
    /\ response = <<>>

\* line 52
filepath == os_path_join(UPLOAD_FOLDER, request[1].filename)

\* a return statement of upload_file
Answer(status, error) ==
    /\ response' = <<[status |-> status, error |-> error]>>
    /\ up_pc' = "done"

UploadIdle == <<EN_STOP, CUSTOM_STOP, tokVars, yearVars, kwVars>>

\* lines 43-48: the request carries no file
UploadReject ==
    /\ up_pc = "start"
    /\ ~request[1].has_file \/ request[1].filename = <<>>
    /\ IF ~request[1].has_file THEN Answer(400, "No file provided")
       ELSE Answer(400, "No file selected")
    /\ UNCHANGED <<UploadIdle, lifeVars, request, uploads>>

\* lines 51-53: file.save(filepath) writes the file or raises
UploadSave ==
    /\ up_pc = "start"
    /\ request[1].has_file /\ request[1].filename # <<>>
    /\ \E written \in BOOLEAN :
          IF written
          THEN /\ uploads' = uploads \cup {filepath}
               /\ up_pc' = "saved"
               /\ response' = response
          ELSE /\ uploads' = uploads
               /\ Answer(500, "OSError")
    /\ UNCHANGED <<UploadIdle, lifeVars, request>>

\* the text "Ran labs 2019", which holds none of the handler's keywords
TEXT_plain == <<"R","a","n"," ","l","a","b","s"," ","2","0","1","9">>

\* how the first extractor read_any(p) runs can end
FirstOutcomes(p) ==
    LET branch == read_any_branch(p)
    IN  IF branch = "pdf" THEN PdfOutcomes("PdfplumberError")
        ELSE IF branch = "docx" THEN DocxOutcomes
        ELSE TxtOutcomes \cup {Success(TEXT_plain)}

\* line 56: analyzer = CVAnalyzer(filepath)
UploadAnalyze ==
    /\ up_pc = "saved"
    /\ \E first \in FirstOutcomes(filepath), second \in PdfOutcomes("PyPDF2Error"),
          now \in NowYears :
          LET r == read_any(filepath, first, second)
              tk == tokenize(r.ret, {}, EN_STOP, CUSTOM_STOP)
          IN  /\ attempt' = attempts_of(filepath, first, second)
              /\ IF r.raised
                 THEN /\ pc' = "raised" /\ exc' = r.error
                      /\ read_ret' = <<>> /\ self' = <<>>
                      /\ UNCHANGED <<EN_STOP, CUSTOM_STOP>>
                      /\ Answer(500, r.error)
                 ELSE /\ pc' = "ready" /\ exc' = "none"
                      /\ read_ret' = <<r.ret>>
                      /\ self' = <<new_analyzer(filepath, r.ret, EN_STOP, CUSTOM_STOP, now)>>
                      /\ EN_STOP' = tk.EN_STOP
                      /\ CUSTOM_STOP' = tk.CUSTOM_STOP
                      /\ up_pc' = "analyzed"
                      /\ response' = response
    /\ path' = filepath
    /\ read_calls' = read_calls + 1
    /\ UNCHANGED <<tokVars, yearVars, kwVars, last_ret, kw_seen, request, uploads>>

\* what WordCloud can answer for the tokens: without tokens it finds no word
WordCloudFinds(me) == IF me.tokens = <<>> THEN {FALSE} ELSE BOOLEAN

\* lines 59-71: the summary, the word cloud, the top words chart and the
\* year mentions chart
UploadCharts ==
    /\ up_pc = "analyzed"
    /\ \E finds_word \in WordCloudFinds(self[1]) :
          LET summary == get_summary(self[1])
              word_cloud == generate_word_cloud_figure(summary.self, finds_word)
              top_words_fig == plot_top_words_figure(summary.self, TopWordsN)
              top_words_b64 == create_plot_base64(top_words_fig.ret)
              year_mentions_fig == plot_year_mentions_figure(top_words_fig.self)
          IN  IF word_cloud.raised
              THEN /\ Returned("get_summary", "", summary)
                   /\ Answer(500, word_cloud.error)
              ELSE IF top_words_b64.raised
              THEN /\ Returned("plot_top_words_figure", "", top_words_fig)
                   /\ Answer(500, top_words_b64.error)
              ELSE /\ Returned("plot_year_mentions_figure", "", year_mentions_fig)
                   /\ up_pc' = "charts"
                   /\ response' = response
    /\ UNCHANGED <<UploadIdle, path, pc, attempt, read_calls, read_ret, exc, kw_seen,
                   request, uploads>>

\* lines 74-85: the keyword counts and the keyword chart, which is None
\* when no keyword was counted
UploadKeywords ==
    /\ up_pc = "charts"
    /\ LET keyword_results == analyze_keywords(self[1], AppKeywordLists)
           keyword_chart_fig == plot_keywords_figure(keyword_results.self, AppKeywordLists)
           keyword_chart_b64 == create_plot_base64(keyword_chart_fig.ret)
       IN  /\ Returned("plot_keywords_figure", "upload_file", keyword_chart_fig)
           /\ IF keyword_chart_b64.raised
              THEN Answer(500, keyword_chart_b64.error)
              ELSE /\ up_pc' = "keywords"
                   /\ response' = response
    /\ UNCHANGED <<UploadIdle, path, pc, attempt, read_calls, read_ret, exc, kw_seen,
                   request, uploads>>

\* lines 88-92: the top words table and the AI analysis
UploadAIAnalysis ==
    /\ up_pc = "keywords"
    /\ \E openai_api_key \in ApiKeys :
          LET top_words_data == most_common(self[1].word_counts, TopWordsN)
              ai_analysis == get_ai_analysis(self[1], openai_api_key)
          IN  /\ last_ret' = [method |-> "get_ai_analysis", arg |-> "",
                              value |-> <<ai_analysis.value, top_words_data>>]
              /\ IF ai_analysis.raised
                 THEN Answer(500, ai_analysis.error)
                 ELSE /\ up_pc' = "ai"
                      /\ response' = response
    /\ UNCHANGED <<UploadIdle, path, pc, attempt, read_calls, read_ret, exc, self,
                   kw_seen, request, uploads>>

\* lines 95-107: os.remove(filepath), then the response
UploadRespond ==
    /\ up_pc = "ai"
    /\ LET removed == os_remove(uploads, filepath)
       IN  IF removed.raised
           THEN /\ uploads' = uploads
                /\ Answer(500, removed.error)
           ELSE /\ uploads' = removed.value
                /\ Answer(200, "none")
    /\ UNCHANGED <<UploadIdle, lifeVars, request>>

NextUpload ==
    \/ UploadReject
    \/ UploadSave
    \/ UploadAnalyze
    \/ UploadCharts
    \/ UploadKeywords
    \/ UploadAIAnalysis
    \/ UploadRespond

SpecUpload == InitUpload /\ [][NextUpload]_vars

(***************************************************************************)
(* Properties of the upload handler                                        *)
(***************************************************************************)
\* C11: whenever upload_file has returned a response, with any status, the
\* file it saved in the uploads folder has been removed: no uploaded
\* document is left in the folder after the request.
C11_SavedFileDiscarded ==
    up_pc = "done" => filepath \notin uploads

====
